---- MODULE Spec2Model ----
(***************************************************************************)
(* A model of src/src/field_type.rs: the FieldType record that accumulates *)
(* the observations of one field path, its value normalisation (get_value),*)
(* and the statistics computed by finalise_type.                           *)
(*                                                                         *)
(* A Bson value is a record [tag, val]; tag is the name of the Bson        *)
(* variant.  A ValueType (normalised value) is a record [tag, val] too.     *)
(* Option<T> is a sequence of length 0 (None) or 1 (Some).                 *)
(* A panic (unimplemented!() or unwrap() on None) sets `panicked`; the     *)
(* record then keeps the contents it had at the point of the panic and no  *)
(* further call is made.                                                   *)
(***************************************************************************)
EXTENDS Integers, Sequences, FiniteSets, TLC

VARIABLES
  ft,        \* the FieldType record
  last,      \* the call made last: [op, value, parent_count]
  panicked,  \* TRUE once a call has panicked
  updates,   \* number of update_type calls completed
  refinalised, \* TRUE when the last call was a finalise_type that followed
               \* a finalise_type with the same parent_count
  ret        \* what the last call of get_value or get_type returned

vars == <<ft, last, panicked, updates, refinalised, ret>>

-----------------------------------------------------------------------------
(* Bounds of the model.                                                    *)

\* update_type is called only while count < MaxCount
MaxCount == 3
\* observations are made only while the value pool stays within MaxValues
MaxValues == 3
\* parent_count ranges over 0..MaxParent
MaxParent == 3

ParentCounts == 0..MaxParent

-----------------------------------------------------------------------------
(* Option<T>                                                               *)

None == <<>>
Some(x) == <<x>>
is_some(o) == Len(o) = 1
unwrap(o) == o[1]

-----------------------------------------------------------------------------
(* Bson values.                                                            *)

B(tag, val) == [tag |-> tag, val |-> val]

\* f64 payloads: tenths of a unit, or NaN
F64(t) == [nan |-> FALSE, tenths |-> t]
NaN == [nan |-> TRUE, tenths |-> 0]

\* a sub-document with one field, and the empty sub-document
DocB == B("Document", << <<"b", B("I32", 1)>> >>)
DocEmpty == B("Document", <<>>)

\* The scalar inputs of the accumulation runs.
ScalarInputs ==
  { B("I32", 1), B("I32", 2), B("String", "x"),
    B("String", "Berlin"), B("FloatingPoint", NaN) }

\* The array inputs: scalars only, nested arrays and documents among them.
ArrayInputs ==
  { B("Array", <<>>),
    B("Array", << B("I32", 1), B("I32", 2), B("I32", 1) >>),
    B("Array", << B("I32", 2), B("Array", << B("I32", 1) >>), B("String", "x") >>),
    B("Array", << DocB, B("String", "Berlin") >>) }

DocumentInputs == { DocB }

BsonInputs == ScalarInputs \cup ArrayInputs \cup DocumentInputs

\* One value (or two) of every Bson variant, for the pure functions.
BsonVariants ==
  { B("FloatingPoint", F64(12)), B("FloatingPoint", NaN),
    B("String", "cats"), B("String", "x"),
    B("Array", << B("I32", 1234), B("Array", <<>>), DocEmpty, B("TimeStamp", 1) >>),
    B("Array", <<>>),
    DocB, DocEmpty,
    B("Boolean", TRUE), B("Boolean", FALSE),
    B("Null", <<>>),
    B("RegExp", <<"x", "i">>),
    B("JavaScriptCode", "x"),
    B("JavaScriptCodeWithScope", <<"x", <<>> >>),
    B("I32", 1234), B("I32", 1),
    B("I64", 1234), B("I64", 1),
    B("TimeStamp", 1234), B("TimeStamp", 1),
    B("Binary", <<0, <<1, 2>> >>),
    B("ObjectId", 0), B("ObjectId", 1),
    B("UtcDatetime", 0), B("UtcDatetime", 1),
    B("Symbol", "x"), B("Symbol", "cats"),
    B("Decimal128", 1), B("Decimal128", 2),
    B("Binary", <<0, <<>> >>), B("RegExp", <<"cats", "">>),
    B("JavaScriptCode", "cats"), B("JavaScriptCodeWithScope", <<"cats", <<>> >>) }

-----------------------------------------------------------------------------
(* Conversions to String made by get_value.                                *)

\* ObjectId::to_string: the 24 hex digits of the 12 bytes
ObjectIdToString(id) ==
  IF id = 0 THEN "000000000000000000000000" ELSE "000000000000000000000001"

\* DateTime<Utc>::to_string of a date given in seconds since the epoch
UtcDatetimeToString(date) ==
  IF date = 0 THEN "1970-01-01 00:00:00 UTC" ELSE "1970-01-01 00:00:01 UTC"

\* Decimal128::to_string
Decimal128ToString(d128) ==
  IF d128 = 1 THEN "1" ELSE "2"

-----------------------------------------------------------------------------
(* ValueType                                                               *)

V(kind, val) == [tag |-> kind, val |-> val]

\* get_value with the TimeStamp arm forgotten
get_value_without_timestamp(value) ==
  CASE value.tag \in {"RegExp", "JavaScriptCodeWithScope"} -> Some(V("Str", value.val[1]))
    [] value.tag \in {"JavaScriptCode", "Symbol"} -> Some(V("Str", value.val))
    [] value.tag = "I64" -> Some(V("I64", value.val))
    [] value.tag = "FloatingPoint" -> Some(V("FloatingPoint", value.val))
    [] value.tag = "UtcDatetime" -> Some(V("Str", UtcDatetimeToString(value.val)))
    [] value.tag = "Decimal128" -> Some(V("Decimal128", Decimal128ToString(value.val)))
    [] value.tag = "Boolean" -> Some(V("Boolean", value.val))
    [] value.tag = "String" -> Some(V("Str", value.val))
    [] value.tag = "Binary" -> Some(V("Binary", value.val[2]))
    [] value.tag = "ObjectId" -> Some(V("Str", ObjectIdToString(value.val)))
    [] value.tag = "I32" -> Some(V("I32", value.val))
    [] value.tag = "Null" -> Some(V("Null", "Null"))
    [] OTHER -> None

get_value(value) ==
  CASE value.tag \in {"RegExp", "JavaScriptCodeWithScope"} -> Some(V("Str", value.val[1]))
    [] value.tag \in {"JavaScriptCode", "Symbol"} -> Some(V("Str", value.val))
    [] value.tag \in {"I64", "TimeStamp"} -> Some(V("I64", value.val))
    [] value.tag = "FloatingPoint" -> Some(V("FloatingPoint", value.val))
    [] value.tag = "UtcDatetime" -> Some(V("Str", UtcDatetimeToString(value.val)))
    [] value.tag = "Decimal128" -> Some(V("Decimal128", Decimal128ToString(value.val)))
    [] value.tag = "Boolean" -> Some(V("Boolean", value.val))
    [] value.tag = "String" -> Some(V("Str", value.val))
    [] value.tag = "Binary" -> Some(V("Binary", value.val[2]))
    [] value.tag = "ObjectId" -> Some(V("Str", ObjectIdToString(value.val)))
    [] value.tag = "I32" -> Some(V("I32", value.val))
    [] value.tag = "Null" -> Some(V("Null", "Null"))
    [] OTHER -> None

get_type(value) ==
  CASE value.tag = "JavaScriptCodeWithScope" -> "JavaScriptCodeWithScope"
    [] value.tag = "JavaScriptCode" -> "JavaScriptCode"
    [] value.tag = "FloatingPoint" -> "Double"
    [] value.tag = "UtcDatetime" -> "UtcDatetime"
    [] value.tag = "Decimal128" -> "Decimal128"
    [] value.tag = "TimeStamp" -> "Timestamp"
    [] value.tag = "Binary" -> "BinData"
    [] value.tag = "RegExp" -> "Regex"
    [] value.tag = "Document" -> "Document"
    [] value.tag = "ObjectId" -> "ObjectId"
    [] value.tag = "Boolean" -> "Boolean"
    [] value.tag = "Symbol" -> "Symbol"
    [] value.tag = "String" -> "String"
    [] value.tag = "Array" -> "Array"
    [] value.tag = "I32" -> "Int"
    [] value.tag = "I64" -> "Long"
    [] value.tag = "Null" -> "Null"

\* arr.iter().filter_map(|val| Self::get_value(val)), collected in order
RECURSIVE filter_map_get_value(_)
filter_map_get_value(arr) ==
  IF arr = <<>> THEN <<>>
  ELSE get_value(Head(arr)) \o filter_map_get_value(Tail(arr))

-----------------------------------------------------------------------------
(* The comparisons of ValueType: #[derive(PartialEq, PartialOrd)] on the   *)
(* enum, so values of different variants compare by the position of their  *)
(* variant and values of one variant by their payload.  Only f64 payloads  *)
(* can be incomparable (a NaN compares with nothing, itself included).     *)

Less == "Less"
Equal == "Equal"
Greater == "Greater"

\* position of the variant in the declaration of the enum
VariantIndex(kind) ==
  CASE kind = "Str" -> 0
    [] kind = "I32" -> 1
    [] kind = "I64" -> 2
    [] kind = "FloatingPoint" -> 3
    [] kind = "Boolean" -> 4
    [] kind = "Decimal128" -> 5
    [] kind = "Binary" -> 6
    [] kind = "Null" -> 7

int_cmp(a, b) == IF a < b THEN Less ELSE IF a = b THEN Equal ELSE Greater

\* the strings of the model in the byte-wise lexicographic order of String
StringOrder ==
  << "000000000000000000000000", "000000000000000000000001", "1",
     "1970-01-01 00:00:00 UTC", "1970-01-01 00:00:01 UTC", "2",
     "Berlin", "Hamburg", "Null", "cats", "x" >>

StringRank(s) == CHOOSE i \in 1..Len(StringOrder) : StringOrder[i] = s

string_cmp(a, b) == int_cmp(StringRank(a), StringRank(b))

\* Vec<u8>: lexicographic
RECURSIVE bytes_cmp(_, _)
bytes_cmp(a, b) ==
  IF a = <<>> THEN (IF b = <<>> THEN Equal ELSE Less)
  ELSE IF b = <<>> THEN Greater
  ELSE IF Head(a) # Head(b) THEN int_cmp(Head(a), Head(b))
  ELSE bytes_cmp(Tail(a), Tail(b))

\* f64::partial_cmp
f64_partial_cmp(a, b) ==
  IF a.nan \/ b.nan THEN None ELSE Some(int_cmp(a.tenths, b.tenths))

\* ValueType::partial_cmp
partial_cmp(a, b) ==
  IF a.tag # b.tag THEN Some(int_cmp(VariantIndex(a.tag), VariantIndex(b.tag)))
  ELSE CASE a.tag \in {"I32", "I64"} -> Some(int_cmp(a.val, b.val))
         [] a.tag \in {"Str", "Decimal128", "Null"} -> Some(string_cmp(a.val, b.val))
         [] a.tag = "FloatingPoint" -> f64_partial_cmp(a.val, b.val)
         [] a.tag = "Boolean" ->
              Some(int_cmp(IF a.val THEN 1 ELSE 0, IF b.val THEN 1 ELSE 0))
         [] a.tag = "Binary" -> Some(bytes_cmp(a.val, b.val))

\* ValueType::eq
value_eq(a, b) ==
  /\ a.tag = b.tag
  /\ IF a.tag = "FloatingPoint"
     THEN ~a.val.nan /\ ~b.val.nan /\ a.val.tenths = b.val.tenths
     ELSE a.val = b.val

-----------------------------------------------------------------------------
(* Results of calls that can panic.                                        *)

Ok(x) == [ok |-> TRUE, val |-> x]
Panic(x) == [ok |-> FALSE, val |-> x]

-----------------------------------------------------------------------------
(* vec.sort_by(|a, b| a.partial_cmp(b).unwrap()) and vec.dedup()           *)

Front(s) == SubSeq(s, 1, Len(s) - 1)
Last(s) == s[Len(s)]

\* insert x into the sorted s, comparing from the right; stable
RECURSIVE sort_insert(_, _)
sort_insert(s, x) ==
  IF s = <<>> THEN Ok(<<x>>)
  ELSE LET c == partial_cmp(x, Last(s)) IN
       IF ~is_some(c) THEN Panic(<<>>)
       ELSE IF unwrap(c) = Less
            THEN LET r == sort_insert(Front(s), x) IN
                 IF r.ok THEN Ok(Append(r.val, Last(s))) ELSE r
            ELSE Ok(Append(s, x))

RECURSIVE sort_by_partial_cmp(_)
sort_by_partial_cmp(vec) ==
  IF vec = <<>> THEN Ok(<<>>)
  ELSE LET r == sort_by_partial_cmp(Front(vec)) IN
       IF r.ok THEN sort_insert(r.val, Last(vec)) ELSE r

\* removes consecutive repeated elements
RECURSIVE dedup(_)
dedup(vec) ==
  IF Len(vec) <= 1 THEN vec
  ELSE LET d == dedup(Front(vec)) IN
       IF value_eq(Last(d), Last(vec)) THEN d ELSE Append(d, Last(vec))

-----------------------------------------------------------------------------
(* f32 arithmetic of set_probability.  The quotient of two counts is kept  *)
(* as the fraction in lowest terms (two quotients of counts below 2^12 are *)
(* the same f32 exactly when the fractions are equal); x / 0 is +infinity  *)
(* for x > 0 and NaN for x = 0.                                            *)

RECURSIVE gcd(_, _)
gcd(a, b) == IF b = 0 THEN a ELSE gcd(b, a % b)

F32(num, den) == [num |-> num, den |-> den]
F32Zero == F32(0, 1)
F32One == F32(1, 1)
F32Infinity == F32(1, 0)
F32NaN == F32(0, 0)

f32_div(a, b) ==
  IF b = 0 THEN (IF a = 0 THEN F32NaN ELSE F32Infinity)
  ELSE F32(a \div gcd(a, b), b \div gcd(a, b))

-----------------------------------------------------------------------------
(* SchemaParser, the accumulator of a nested level, is kept as the sequence *)
(* of the calls it has received.                                           *)

SchemaParser_new == <<>>

generate_field(schema_parser, subdoc, path, count) ==
  Append(schema_parser,
         [op |-> "generate_field", doc |-> subdoc, path |-> path, count |-> count])

\* whether the accumulator has been told to finalise its field records
is_finalised(schema_parser) ==
  \E i \in 1..Len(schema_parser) : schema_parser[i].op = "finalise"

-----------------------------------------------------------------------------
(* FieldType                                                               *)

Path == "address"

\* new that folds the first value into values itself
new_populating(path, value) ==
  [ path |-> path,
    bson_type |-> get_type(value),
    count |-> 1,
    probability |-> F32Zero,
    values |-> IF value.tag = "Array" THEN filter_map_get_value(value.val)
               ELSE get_value(value),
    has_duplicates |-> FALSE,
    schema |-> None,
    unique |-> None ]

new(path, value) ==
  [ path |-> path,
    bson_type |-> get_type(value),
    count |-> 1,
    probability |-> F32Zero,
    values |-> <<>>,
    has_duplicates |-> FALSE,
    schema |-> None,
    unique |-> None ]

\* set_probability with the operands of the division exchanged
set_probability_inverted(self, parent_count) ==
  [self EXCEPT !.probability = f32_div(parent_count, self.count)]

set_probability(self, parent_count) ==
  [self EXCEPT !.probability = f32_div(self.count, parent_count)]

set_schema(self, schema) == [self EXCEPT !.schema = Some(schema)]

\* update_count that leaves the count alone
update_count_forgotten(self) == self

\* update_count that also refreshes probability, against the new count
update_count_refreshing(self) ==
  [self EXCEPT !.count = @ + 1, !.probability = f32_div(self.count + 1, self.count + 1)]

update_count(self) == [self EXCEPT !.count = @ + 1]

\* update_value that pushes an array as it pushes a scalar
update_value_unflattened(self, value) ==
  [self EXCEPT !.values = @ \o get_value(value)]

\* update_value that puts the new entries in front
update_value_in_front(self, value) ==
  IF value.tag = "Array"
  THEN [self EXCEPT !.values = filter_map_get_value(value.val) \o @]
  ELSE [self EXCEPT !.values = get_value(value) \o @]

\* update_value that stores a document as a string entry
update_value_keeping_documents(self, value) ==
  IF value.tag = "Array"
  THEN [self EXCEPT !.values = @ \o filter_map_get_value(value.val)]
  ELSE IF value.tag = "Document"
       THEN [self EXCEPT !.values = Append(@, V("Str", "x"))]
       ELSE [self EXCEPT !.values = @ \o get_value(value)]

\* update_value that takes the type label from the value it folds in
update_value_retyping(self, value) ==
  IF value.tag = "Array"
  THEN [self EXCEPT !.values = @ \o filter_map_get_value(value.val),
                    !.bson_type = get_type(value)]
  ELSE [self EXCEPT !.values = @ \o get_value(value),
                    !.bson_type = get_type(value)]

update_value(self, value) ==
  IF value.tag = "Array"
  THEN [self EXCEPT !.values = @ \o filter_map_get_value(value.val)]
  ELSE [self EXCEPT !.values = @ \o get_value(value)]

add_to_type(self, value, parent_count) ==
  LET s1 == set_probability(self, parent_count) IN
  CASE value.tag = "Array" ->
         [s1 EXCEPT !.values = @ \o filter_map_get_value(value.val)]
    [] value.tag = "Document" ->
         set_schema(s1, generate_field(SchemaParser_new, value.val,
                                       Some(s1.path), Some(s1.count)))
    [] OTHER -> [s1 EXCEPT !.values = @ \o get_value(value)]

\* update_type that counts the observation before it looks at the value
update_type_counting_first(self, value) ==
  LET s0 == [self EXCEPT !.count = @ + 1] IN
  IF s0.bson_type = "Document"
  THEN IF is_some(s0.schema) /\ value.tag = "Document"
       THEN LET s1 == [s0 EXCEPT !.schema =
                         Some(generate_field(unwrap(@), value.val,
                                             Some(self.path), Some(self.count)))]
            IN Ok([s1 EXCEPT !.values = @ \o get_value(value)])
       ELSE Panic(s0)
  ELSE Ok(IF value.tag = "Array"
          THEN [s0 EXCEPT !.values = @ \o filter_map_get_value(value.val)]
          ELSE [s0 EXCEPT !.values = @ \o get_value(value)])

\* update_type that counts the observation first and hands the new count
\* to the child schema
update_type_feeding_new_count(self, value) ==
  LET s0 == [self EXCEPT !.count = @ + 1] IN
  IF self.bson_type = "Document"
  THEN IF is_some(self.schema) /\ value.tag = "Document"
       THEN Ok([s0 EXCEPT !.schema =
                  Some(generate_field(unwrap(@), value.val,
                                      Some(s0.path), Some(s0.count))),
                          !.values = @ \o get_value(value)])
       ELSE Panic(self)
  ELSE Ok(IF value.tag = "Array"
          THEN [s0 EXCEPT !.values = @ \o filter_map_get_value(value.val)]
          ELSE [s0 EXCEPT !.values = @ \o get_value(value)])

\* Ok(record), or Panic(record at the unimplemented!())
update_type(self, value) ==
  IF self.bson_type = "Document"
  THEN IF is_some(self.schema)
       THEN IF value.tag = "Document"
            THEN LET s1 == [self EXCEPT !.schema =
                              Some(generate_field(unwrap(@), value.val,
                                                  Some(self.path), Some(self.count)))]
                 IN Ok(update_value(update_count(s1), value))
            ELSE Panic(self)
       ELSE Panic(self)
  ELSE Ok(update_value(update_count(self), value))

\* get_unique without the sort
get_unique_unsorted(self) == Ok(Len(dedup(self.values)))

\* get_unique that counts one run plus one per change of value in the sorted
\* pool, also when the pool is empty
get_unique_counting_changes(self) ==
  LET vec == sort_by_partial_cmp(self.values) IN
  IF vec.ok
  THEN Ok(1 + Cardinality({i \in 1..(Len(vec.val) - 1) :
                             ~value_eq(vec.val[i], vec.val[i + 1])}))
  ELSE Panic(0)

\* Ok(the length), or Panic when the unwrap() of a comparison fails
get_unique(self) ==
  LET vec == sort_by_partial_cmp(self.values) IN
  IF vec.ok THEN Ok(Len(dedup(vec.val))) ELSE Panic(0)

get_duplicates(self) ==
  LET unique == get_unique(self)
      total_values == Len(self.values)
  IN IF unique.ok THEN Ok((total_values - unique.val) # 0) ELSE Panic(FALSE)

\* set_unique that sorts and dedups values itself, not a copy
set_unique_in_place(self) ==
  LET vec == sort_by_partial_cmp(self.values) IN
  IF vec.ok
  THEN Ok([self EXCEPT !.values = dedup(vec.val), !.unique = Some(Len(dedup(vec.val)))])
  ELSE Panic(self)

set_unique(self) ==
  LET unique == get_unique(self) IN
  IF unique.ok THEN Ok([self EXCEPT !.unique = Some(unique.val)]) ELSE Panic(self)

\* set_duplicates that sorts and dedups values itself, not a copy
set_duplicates_in_place(self) ==
  LET vec == sort_by_partial_cmp(self.values) IN
  IF vec.ok
  THEN Ok([self EXCEPT !.values = dedup(vec.val),
                       !.has_duplicates = (Len(self.values) - Len(dedup(vec.val))) # 0])
  ELSE Panic(self)

set_duplicates(self) ==
  LET duplicates == get_duplicates(self) IN
  IF duplicates.ok THEN Ok([self EXCEPT !.has_duplicates = duplicates.val])
  ELSE Panic(self)

finalise_type(self, parent_count) ==
  LET s1 == set_probability(self, parent_count)
      s2 == set_unique(s1)
  IN IF s2.ok THEN set_duplicates(s2.val) ELSE s2

-----------------------------------------------------------------------------------------------------------------------------------------------------
(* The calls.                                                              *)

NoValue == B("Null", <<>>)
Call(op, value, parent_count) ==
  [op |-> op, value |-> value, parent_count |-> parent_count]

\* the values an observation of `value` adds to the pool
Added(value) ==
  IF value.tag = "Array" THEN filter_map_get_value(value.val) ELSE get_value(value)

\* The lifecycle of a record (spec.md, section 3): the observations are
\* folded in while it accumulates, and it is finalised after the last of
\* them.  add_to_type folds the creating observation, right after new.
Accumulating == last.op \in {"new", "add_to_type", "update_type"}

Created(inputs) ==
  \E value \in inputs :
    /\ ft = new(Path, value)
    /\ last = Call("new", value, 0)
    /\ panicked = FALSE
    /\ updates = 0
    /\ refinalised = FALSE
    /\ ret = None

Init == Created(BsonInputs)

AddToType(value, parent_count) ==
  /\ ~panicked
  /\ last.op = "new"
  /\ Len(ft.values) + Len(Added(value)) <= MaxValues
  /\ ft' = add_to_type(ft, value, parent_count)
  /\ last' = Call("add_to_type", value, parent_count)
  /\ refinalised' = FALSE
  /\ UNCHANGED <<panicked, updates, ret>>

UpdateType(value) ==
  /\ ~panicked
  /\ Accumulating
  /\ ft.count < MaxCount
  /\ Len(ft.values) + Len(Added(value)) <= MaxValues
  /\ LET r == update_type(ft, value) IN
       /\ ft' = r.val
       /\ panicked' = ~r.ok
       /\ updates' = IF r.ok THEN updates + 1 ELSE updates
  /\ last' = Call("update_type", value, 0)
  /\ refinalised' = FALSE
  /\ UNCHANGED ret

FinaliseType(parent_count) ==
  /\ ~panicked
  /\ LET r == finalise_type(ft, parent_count) IN
       /\ ft' = r.val
       /\ panicked' = ~r.ok
  /\ last' = Call("finalise_type", NoValue, parent_count)
  /\ refinalised' = (last.op = "finalise_type" /\ last.parent_count = parent_count)
  /\ UNCHANGED <<updates, ret>>

\* set_duplicates called by itself, on a record that is not finalised
SetDuplicates ==
  /\ ~panicked
  /\ Accumulating
  /\ LET r == set_duplicates(ft) IN
       /\ ft' = r.val
       /\ panicked' = ~r.ok
  /\ last' = Call("set_duplicates", NoValue, 0)
  /\ refinalised' = FALSE
  /\ UNCHANGED <<updates, ret>>

Next ==
  \/ \E value \in BsonInputs, parent_count \in ParentCounts :
       AddToType(value, parent_count)
  \/ \E value \in BsonInputs : UpdateType(value)
  \/ \E parent_count \in ParentCounts : FinaliseType(parent_count)
  \/ SetDuplicates

Spec == Init /\ [][Next]_vars

-----------------------------------------------------------------------------
(* The pure functions get_value and get_type, applied to the value a       *)
(* record was created from, for values of every Bson variant.              *)

InitVariants == Created(BsonVariants \cup BsonInputs)

GetValue ==
  /\ ret' = get_value(last.value)
  /\ last' = [last EXCEPT !.op = "get_value"]
  /\ UNCHANGED <<ft, panicked, updates, refinalised>>

GetType ==
  /\ ret' = Some(get_type(last.value))
  /\ last' = [last EXCEPT !.op = "get_type"]
  /\ UNCHANGED <<ft, panicked, updates, refinalised>>

NextVariants == GetValue \/ GetType

SpecVariants == InitVariants /\ [][NextVariants]_vars

-----------------------------------------------------------------------------
(* Properties.                                                             *)

Containers == {"Array", "Document"}
IsPrefix(s, t) == Len(s) <= Len(t) /\ SubSeq(t, 1, Len(s)) = s

\* C1: count is 1 after new, never decreases, equals the number of
\* completed update_type calls plus one, and only update_type changes it.
CountIsUpdatesPlusOne ==
  /\ [](ft.count = updates + 1)
  /\ [][ /\ ft'.count >= ft.count
         /\ (last'.op # "update_type" => ft'.count = ft.count)
         /\ (last'.op = "update_type" /\ ~panicked' => ft'.count = ft.count + 1)
       ]_vars

\* C1 witness: two update_type calls have completed and finalise_type and
\* add_to_type have run as well.
CountWitness ==
  /\ updates = 2 /\ ft.count = 3
  /\ last.op = "finalise_type" /\ ~panicked

\* C2: after finalise_type(N) on a record observed K times (1 <= K <= N),
\* count is K and probability is K / N, which is 1.0 when K = N.
ProbabilityIsCountOverParent ==
  LET K == updates + 1
      N == last.parent_count
  IN (last.op = "finalise_type" /\ ~panicked /\ K <= N) =>
       /\ ft.count = K
       /\ ft.probability.den # 0
       /\ ft.probability.num * N = K * ft.probability.den
       /\ (K = N => ft.probability = F32One)

\* C2 witness: a field seen in 2 of 3 documents, finalised.
ProbabilityWitness ==
  /\ last.op = "finalise_type" /\ ~panicked
  /\ updates = 1 /\ last.parent_count = 3
  /\ ft.probability = F32(2, 3)

\* the number of distinct values of a pool
SameValue(a, b) == a.tag = b.tag /\ a.val = b.val
Distinct(values) ==
  Cardinality({ i \in 1..Len(values) :
                  \A j \in 1..(i - 1) : ~SameValue(values[j], values[i]) })

\* C3: after finalise_type, unique is Some(d) for d the number of distinct
\* values of the pool, and has_duplicates tells whether values.len() # d.
UniqueIsDistinctCount ==
  (last.op = "finalise_type" /\ ~panicked) =>
     /\ ft.unique = Some(Distinct(ft.values))
     /\ ft.has_duplicates = (Len(ft.values) # Distinct(ft.values))
     /\ (ft.values = <<V("Str", "Berlin"), V("Str", "x")>> =>
           ft.unique = Some(2) /\ ~ft.has_duplicates)
     /\ (ft.values = <<V("Str", "Berlin"), V("Str", "Berlin")>> =>
           ft.unique = Some(1) /\ ft.has_duplicates)

\* C3 witness: a finalised pool in which a value recurs between others.
UniqueWitness ==
  /\ last.op = "finalise_type" /\ ~panicked
  /\ ft.values = <<V("Str", "Berlin"), V("I32", 1), V("Str", "Berlin")>>
  /\ ft.unique = Some(2) /\ ft.has_duplicates

\* C4: update_type of a Document record with a value that is no Document
\* fails and leaves the record as it was.
MismatchLeavesRecord ==
  [][ ( /\ ~panicked
        /\ last'.op = "update_type"
        /\ ft.bson_type = "Document"
        /\ last'.value.tag # "Document" )
      => (panicked' /\ ft' = ft /\ updates' = updates) ]_vars

\* C4 witness: a Document record that has its schema was given an Int.
MismatchWitness ==
  /\ panicked /\ last.op = "update_type"
  /\ ft.bson_type = "Document" /\ is_some(ft.schema)
  /\ last.value = B("I32", 1)
  /\ ft.count = 2

\* C5: schema is Some exactly when bson_type is "Document".
SchemaIffDocument ==
  is_some(ft.schema) <=> ft.bson_type = "Document"

\* the entries an array is to contribute: one per element that is neither
\* an array nor a document, in the order of the elements
ScalarElements(arr) == SelectSeq(arr, LAMBDA e : e.tag \notin Containers)
ArrayEntries(arr) ==
  [i \in 1..Len(ScalarElements(arr)) |-> unwrap(get_value(ScalarElements(arr)[i]))]

\* C6: an observed array appends one normalised entry per element that is
\* neither an array nor a document, in element order, and nothing else.
ArrayIsFlattened ==
  [][ ( /\ last'.op \in {"add_to_type", "update_type"}
        /\ ~panicked'
        /\ last'.value.tag = "Array" )
      => /\ ft'.values = ft.values \o ArrayEntries(last'.value.val)
         /\ Len(ft'.values) =
              Len(ft.values)
                + Cardinality({ i \in 1..Len(last'.value.val) :
                                  last'.value.val[i].tag \notin Containers }) ]_vars

\* C6 witness: an array with a nested array in it was folded into a pool
\* that held an entry.
ArrayWitness ==
  /\ last.op = "update_type" /\ ~panicked
  /\ last.value =
       B("Array", << B("I32", 2), B("Array", << B("I32", 1) >>), B("String", "x") >>)
  /\ ft.values = <<V("Str", "Berlin"), V("I32", 2), V("Str", "x")>>

\* C7: finalise_type never fails, whatever the pool of values.
FinaliseNeverFails ==
  ~(panicked /\ last.op = "finalise_type")

\* C8: a second finalise_type with the same parent_count changes nothing.
FinaliseIdempotent ==
  [][ ( /\ last.op = "finalise_type" /\ ~panicked
        /\ last'.op = "finalise_type" /\ ~panicked'
        /\ last'.parent_count = last.parent_count )
      => ft' = ft ]_vars

\* C8 witness: finalise_type has completed twice in a row on a pool with a
\* duplicate.
FinaliseTwiceWitness ==
  /\ refinalised /\ last.op = "finalise_type" /\ ~panicked
  /\ ft.has_duplicates /\ ft.unique = Some(2) /\ Len(ft.values) = 3
  /\ ft.probability = F32One

StrTags ==
  {"String", "RegExp", "Symbol", "JavaScriptCode", "JavaScriptCodeWithScope", "ObjectId"}
Kinds ==
  {"Str", "I32", "I64", "FloatingPoint", "Boolean", "Decimal128", "Binary", "Null"}

\* C9: get_value returns None exactly for Array and Document, Some value of
\* one kind otherwise; I64 and TimeStamp give the I64 kind, and String,
\* RegExp, Symbol, JavaScriptCode, JavaScriptCodeWithScope and ObjectId Str.
GetValueTotal ==
  last.op = "get_value" =>
    LET tag == last.value.tag IN
    /\ (ret = None <=> tag \in Containers)
    /\ (tag \notin Containers => is_some(ret) /\ unwrap(ret).tag \in Kinds)
    /\ (tag \in {"I64", "TimeStamp"} => ret = Some(V("I64", last.value.val)))
    /\ (tag \in StrTags => unwrap(ret).tag = "Str")

\* C9 witness: get_value was applied to a TimeStamp.
GetValueWitness ==
  /\ last.op = "get_value"
  /\ last.value = B("TimeStamp", 1234)
  /\ ret = Some(V("I64", 1234))

\* C10: an observation leaves the earlier contents of values as a prefix
\* of the new contents, and a scalar observation appends exactly one entry.
ValuesAppendOnly ==
  [][ last'.op \in {"add_to_type", "update_type"} =>
        /\ IsPrefix(ft.values, ft'.values)
        /\ (~panicked' /\ last'.value.tag \notin Containers =>
              ft'.values = Append(ft.values, unwrap(get_value(last'.value)))) ]_vars

\* C10 witness: the documents {a: 1}, {a: 2}, {a: "x"}.
ValuesWitness ==
  /\ last = Call("update_type", B("String", "x"), 0) /\ ~panicked
  /\ ft.bson_type = "Int"
  /\ ft.values = <<V("I32", 1), V("I32", 2), V("Str", "x")>>
  /\ ft.count = 3

\* C11: update_type of a record that is no Document with a Document value
\* is surfaced as an error, and does not complete.
DocumentOnScalarRejected ==
  ~( /\ last.op = "update_type" /\ ~panicked
     /\ last.value.tag = "Document"
     /\ ft.bson_type # "Document" )

\* C12: a failed update_type is recoverable: calls can still be made on the
\* record after it.
FailureIsRecoverable ==
  (panicked /\ last.op = "update_type") =>
     ENABLED (\E parent_count \in ParentCounts : FinaliseType(parent_count))

\* C13: finalise_type changes probability, unique and has_duplicates only:
\* values keeps its elements and their order, and path, bson_type, count
\* and schema stay as they were.
FinaliseKeepsValues ==
  [][ last'.op = "finalise_type" =>
        /\ ft'.values = ft.values
        /\ ft' = [ft EXCEPT !.probability = ft'.probability,
                            !.unique = ft'.unique,
                            !.has_duplicates = ft'.has_duplicates] ]_vars

\* C13 witness: a finalised pool that is neither sorted nor free of
\* duplicates.
FinaliseKeepsWitness ==
  /\ last.op = "finalise_type" /\ ~panicked
  /\ ft.values = <<V("I32", 2), V("Str", "x"), V("I32", 2)>>
  /\ ft.unique = Some(2) /\ ft.has_duplicates

\* C14: an observed Document adds nothing to values.
DocumentAddsNoValue ==
  [][ ( /\ last'.op \in {"add_to_type", "update_type"}
        /\ last'.value.tag = "Document" )
      => ft'.values = ft.values ]_vars

\* C14 witness: a Document was folded into a record whose pool held an
\* entry, and the pool still holds just that entry.
DocumentWitness ==
  /\ last = Call("update_type", DocB, 0) /\ ~panicked
  /\ ft.values = <<V("I32", 1)>>
  /\ ft.count = 3

\* C15: bson_type is the type label of the value given to new, and no call
\* changes bson_type or path.
TypeAndPathFixed ==
  /\ [](last.op = "new" => ft.bson_type = get_type(last.value) /\ ft.path = Path)
  /\ [][ft'.bson_type = ft.bson_type /\ ft'.path = ft.path]_vars

\* C15 witness: an Int record that was given a String and an array, and was
\* finalised.
TypeFixedWitness ==
  /\ last.op = "finalise_type" /\ ~panicked
  /\ ft.bson_type = "Int" /\ ft.path = "address"
  /\ ft.values = <<V("Str", "Berlin"), V("I32", 2), V("Str", "x")>>
  /\ ft.count = 3

\* the entries the first value is to leave in the pool
FirstEntries(value) ==
  IF value.tag = "Array" THEN ArrayEntries(value.val)
  ELSE IF value.tag = "Document" THEN <<>>
  ELSE <<unwrap(get_value(value))>>

\* C16 (as claimed): right after new, count is 1, probability is 0.0, and
\* values holds the normalised first value, or the child schema is present
\* when the first value is a document.
CreatePopulates ==
  last.op = "new" =>
    /\ ft.count = 1
    /\ ft.probability = F32Zero
    /\ ft.values = FirstEntries(last.value)
    /\ (last.value.tag = "Document" => is_some(ft.schema))

\* C16 (amended): right after new, count is 1, probability is 0.0, values is
\* empty and schema and unique are None; the add_to_type call that follows
\* populates the record: values then holds the normalised entries of its
\* value, or the schema is present when the value is a document, count is
\* still 1 and probability is 1 / parent_count.
CreateThenAddPopulates ==
  /\ last.op = "new" =>
       /\ ft.count = 1
       /\ ft.probability = F32Zero
       /\ ft.values = <<>>
       /\ ft.schema = None /\ ft.unique = None /\ ~ft.has_duplicates
  /\ last.op = "add_to_type" =>
       /\ ft.count = 1
       /\ ft.probability = f32_div(1, last.parent_count)
       /\ ft.values = FirstEntries(last.value)
       /\ (last.value.tag = "Document" <=> is_some(ft.schema))

\* C16 witness: the creating observation of an array with a nested array
\* has been folded in.
CreateWitness ==
  /\ last.op = "add_to_type"
  /\ last.value =
       B("Array", << B("I32", 2), B("Array", << B("I32", 1) >>), B("String", "x") >>)
  /\ ft.values = <<V("I32", 2), V("Str", "x")>>
  /\ ft.bson_type = "Array"

\* C17 (as claimed): a repeat observation recomputes probability as
\* count / parent_count for the parent count of its level.
UpdateRefreshesProbability ==
  (last.op = "update_type" /\ ~panicked) =>
     \E parent_count \in ParentCounts :
        ft.probability = f32_div(ft.count, parent_count)

\* C17 (amended): a repeat observation (update_type) leaves probability as
\* it was; probability is set to count / parent_count by add_to_type and
\* by finalise_type only.
UpdateKeepsProbability ==
  [][ /\ last'.op \in {"update_type", "set_duplicates"} =>
           ft'.probability = ft.probability
      /\ last'.op \in {"add_to_type", "finalise_type"} =>
           ft'.probability = f32_div(ft'.count, last'.parent_count) ]_vars

\* C17 witness: the field was created in the second document of its level
\* and seen again in two more, and its probability is still 1 / 2.
StaleProbabilityWitness ==
  /\ last.op = "update_type" /\ ~panicked
  /\ ft.count = 3
  /\ ft.probability = F32(1, 2)

\* C18: finalise_type of a record that has a child schema finalises the
\* child schema as well.
FinaliseRecurses ==
  (last.op = "finalise_type" /\ ~panicked /\ is_some(ft.schema)) =>
     is_finalised(unwrap(ft.schema))

\* C19: update_type of a Document record with a Document hands the
\* sub-document to the child schema with the count as it was before this
\* observation (k for the k-th repeat observation), and then adds 1 to count.
ChildGetsCountBefore ==
  /\ []( ( /\ last.op = "update_type" /\ ~panicked
           /\ ft.bson_type = "Document" )
         => /\ is_some(ft.schema)
            /\ Last(unwrap(ft.schema)).count = Some(updates)
            /\ Last(unwrap(ft.schema)).count # Some(updates + 1) )
  /\ [][ ( /\ last'.op = "update_type" /\ ~panicked'
           /\ ft.bson_type = "Document" )
         => /\ ft'.schema =
                 Some(Append(unwrap(ft.schema),
                             [op |-> "generate_field", doc |-> last'.value.val,
                              path |-> Some(ft.path), count |-> Some(ft.count)]))
            /\ ft'.count = ft.count + 1 ]_vars

\* C19 witness: the second repeat observation of a Document field; the
\* child schema was handed the counts 1, 1 and 2.
ChildCountWitness ==
  /\ last = Call("update_type", DocB, 0) /\ ~panicked
  /\ ft.bson_type = "Document" /\ ft.count = 3
  /\ is_some(ft.schema) /\ Len(unwrap(ft.schema)) = 3
  /\ unwrap(ft.schema)[1].count = Some(1)
  /\ unwrap(ft.schema)[2].count = Some(1)
  /\ unwrap(ft.schema)[3].count = Some(2)

\* C20: the unique count never exceeds the number of collected values, so
\* values.len() - unique in get_duplicates stays within usize; a finalised
\* record holds that count, and an empty pool gives Some(0) and no duplicates.
UniqueAtMostValues ==
  /\ get_unique(ft).ok =>
       /\ get_unique(ft).val \in 0..Len(ft.values)
       /\ get_duplicates(ft).ok
       /\ get_duplicates(ft).val = (get_unique(ft).val < Len(ft.values))
       /\ (ft.values = <<>>) => (get_unique(ft).val = 0 /\ ~get_duplicates(ft).val)
  /\ (last.op = "finalise_type" /\ ~panicked) =>
       /\ is_some(ft.unique)
       /\ unwrap(ft.unique) \in 0..Len(ft.values)
       /\ (ft.values = <<>>) => (ft.unique = Some(0) /\ ~ft.has_duplicates)

\* C20 witness: a record finalised with an empty pool.
EmptyPoolWitness ==
  /\ last.op = "finalise_type" /\ ~panicked
  /\ ft.values = <<>>
  /\ ft.unique = Some(0)
  /\ ~ft.has_duplicates

====
